---- MODULE Spec2Model ----
(***************************************************************************)
(* ArrowGo monitoring service: the check execution engine                  *)
(* (internal/monitor Service: registry, per-target ticker goroutines, the  *)
(* bounded check queue, the worker pool and the saveResult pipeline over   *)
(* the monitor_status / monitor_history tables) and the alert Manager      *)
(* (internal/alert/alert.go: event buffer, rule gate, cooldown).           *)
(***************************************************************************)
EXTENDS Integers, Sequences, FiniteSets, TLC

(***************************************************************************)
(* Bounds of the model.                                                    *)
(***************************************************************************)
NumTargets == 2
\* worker goroutines started by startWorkerPool (100 in the program)
NumWorkers == 2
\* capacity of checkQueue (1000 in the program), scaled down
QueueCap == 1
\* capacity of esBuffer (500 in the program), scaled down
EsBufferCap == 1
\* monitorTarget goroutines alive at the same time
MaxTimers == 1
\* probes whose result reaches the pipeline during one run
MaxHistory == 2
\* wall clock of the store, in days
MaxNow == 1
\* "Check queue full" warnings that are counted
MaxWarnings == 1
\* rule ids and channel ids known to the alert Manager
NumRules == 1
NumChannels == 1
\* length of the per-target event buffer (100 in the program), scaled down
EventBufferCap == 2
\* wall clock of the Manager, in seconds; 0 is the zero time.Time
MaxClock == 3
\* monitorTarget goroutines started through the HTTP and gRPC handlers
MaxAdmits == 2
\* goroutines calling ProcessEvent at the same time, and their calls
NumCallers == 2
MaxCalls == 3
\* certificates a TLS server presents
MaxChain == 2
\* entries of expected_status_codes
MaxExpectedCodes == 2
\* packets of one ping run
MaxPings == 4
MaxSends == 2

(***************************************************************************)
(* Program constants.                                                      *)
(***************************************************************************)
\* time.Now().AddDate(0, 0, -30): the trailing window of the uptime queries
UptimeWindowDays == 30
\* addMonitor: "if target.Interval == 0 { target.Interval = 60 }"
DefaultInterval == 60

NoTarget == [ID |-> 0, Type |-> "none", Interval |-> 0]

TargetIds == 1..NumTargets

\* MonitorTarget.Type of the targets handed to AddTarget, one per checker
\* class of NewChecker: TCPChecker encodes an I/O error in the result and
\* returns a nil error; SNMPChecker returns the result together with a
\* non-nil error.
TypeOfInput(id) == IF id % 2 = 1 THEN "tcp" ELSE "snmp"

\* the intervals (seconds) a target can carry: 0 is the zero value of a
\* request without "interval", DefaultInterval what addMonitor puts for it
Intervals == {0, 1, DefaultInterval}

\* every MonitorTarget value of the model
AllTargets ==
    {[ID |-> id, Type |-> TypeOfInput(id), Interval |-> p] :
        id \in TargetIds, p \in Intervals}

\* the targets handed to AddTarget by a caller of the Service
TargetInputs ==
    {[ID |-> id, Type |-> TypeOfInput(id), Interval |-> 1] : id \in TargetIds}

Workers == 1..NumWorkers

Statuses == {"up", "down"}

VARIABLES
    targets,            \* Service.targets: id -> registered target or NoTarget
    timers,             \* live monitorTarget goroutines per captured target
    checkQueue,         \* Service.checkQueue
    queueFullWarnings,  \* "Check queue full, skipping check" warnings logged
    workers,            \* per worker goroutine: position and locals
    statusRows,         \* table monitor_status, in primary-key order
    history,            \* table monitor_history
    esBuffer,           \* Service.esBuffer: the number of buffered tasks
    fileLog,            \* lines written by writeFileLog, per target id
    now,                \* wall clock read by saveResult (days)
    rules,              \* Manager.rules
    channels,           \* Manager.channels
    eventBuffer,        \* Manager.eventBuffer
    alerts,             \* rule ids sendAlert was called for by the latest step
    clock,              \* wall clock read by ProcessEvent (seconds)
    lastID,             \* AUTO_INCREMENT of table monitor_targets
    firstChecks,        \* addMonitor goroutines asleep before TriggerCheck, per id
    triggered,          \* checkTarget goroutines started by TriggerCheck
    panicked,           \* a goroutine has panicked: the process is gone
    ctxDone,            \* Service.ctx is cancelled
    stopped,            \* main has returned
    enabledRow,         \* the enabled column of the row of each target id
    calls,              \* where each caller of ProcessEvent is in its call
    processed,          \* ProcessEvent calls begun, per target
    probeInput,         \* the target and the network answers of the latest probe
    probeResult,        \* the CheckResult (or the panic) of that probe
    globalDialContext,  \* DialContext of the transport of globalHTTPClient
    savedSSL,           \* the typed SSL fields saveResult sets from that probe
    alertRuleRows,      \* table alert_rules: id -> row
    alertChannelRows,   \* table alert_channels: id -> row
    sendLog             \* the Service.SendAlert calls made, with their dispatches

monitorVars == <<targets, timers, checkQueue, queueFullWarnings, workers,
                 statusRows, history, esBuffer, fileLog, now>>

alertVars == <<rules, channels, eventBuffer, alerts, clock, calls, processed>>

probeVars == <<probeInput, probeResult, globalDialContext, savedSSL>>

notifyVars == <<alertRuleRows, alertChannelRows, sendLog>>

serverVars == <<lastID, firstChecks, triggered, panicked, ctxDone, stopped,
                enabledRow>>

vars == <<targets, timers, checkQueue, queueFullWarnings, workers,
          statusRows, history, esBuffer, fileLog, now,
          rules, channels, eventBuffer, alerts, clock,
          lastID, firstChecks, triggered, panicked, ctxDone, stopped,
          enabledRow, calls, processed,
          probeInput, probeResult, globalDialContext, savedSSL,
          alertRuleRows, alertChannelRows, sendLog>>

(***************************************************************************)
(* Helpers.                                                                *)
(***************************************************************************)
Min(a, b) == IF a < b THEN a ELSE b

RECURSIVE SumOver(_, _)
SumOver(f, S) ==
    IF S = {} THEN 0
    ELSE LET x == CHOOSE y \in S : TRUE IN f[x] + SumOver(f, S \ {x})

(***************************************************************************)
(* models.MonitorStatus and the store operations of gorm used by the       *)
(* pipeline.                                                               *)
(***************************************************************************)
\* a fresh models.MonitorStatus{TargetID: id}: zero primary key
NewStatus(id) ==
    [ID |-> 0, TargetID |-> id, Status |-> "", CheckedAt |-> 0,
     UptimePercentage |-> 0]

NoStatus == NewStatus(0)

\* db.Where("target_id = ?", id).First(&status): the row with the lowest
\* primary key, or a record-not-found error (ID 0 here)
FirstStatus(rows, id) ==
    LET m == {i \in 1..Len(rows) : rows[i].TargetID = id}
    IN  IF m = {} THEN NoStatus
        ELSE rows[CHOOSE i \in m : \A j \in m : i <= j]

\* db.Save(&status): INSERT with a fresh primary key when the key is zero,
\* UPDATE of every column of the row with that key otherwise
SaveStatusRow(rows, s) ==
    IF s.ID = 0
    THEN Append(rows, [s EXCEPT !.ID = Len(rows) + 1])
    ELSE [i \in 1..Len(rows) |-> IF rows[i].ID = s.ID THEN s ELSE rows[i]]

\* Count over monitor_history with target_id = id AND checked_at >= since
CountHistory(h, id, since) ==
    Cardinality({i \in 1..Len(h) :
        h[i].TargetID = id /\ h[i].CheckedAt >= since})

\* the same with AND status = 'up'
CountUpHistory(h, id, since) ==
    Cardinality({i \in 1..Len(h) :
        h[i].TargetID = id /\ h[i].Status = "up" /\ h[i].CheckedAt >= since})

\* int32((upCount * 100) / historyCount), 0 when historyCount is 0
UptimeOf(upCount, historyCount) ==
    IF historyCount > 0 THEN (upCount * 100) \div historyCount ELSE 0

\* saveResult lines 220-231 and 282: look the row of the target up, set
\* status and checked_at = t, save
StatusSaved(rows, id, status, t) ==
    LET found == FirstStatus(rows, id)
        base  == IF found.ID = 0 THEN NewStatus(id) ELSE found
    IN  SaveStatusRow(rows, [base EXCEPT !.Status = status, !.CheckedAt = t])

\* updateUptimePercentage run in one piece at time t over history h
UptimeUpdated(rows, h, id, t) ==
    LET found == FirstStatus(rows, id)
    IN  IF found.ID = 0 THEN rows
        ELSE SaveStatusRow(rows, [found EXCEPT !.UptimePercentage =
                 UptimeOf(CountUpHistory(h, id, t - UptimeWindowDays),
                          CountHistory(h, id, t - UptimeWindowDays))])

\* saveResult lines 293-300: non-blocking send on esBuffer
EsEnqueue(n) == IF n < EsBufferCap THEN n + 1 ELSE n

(***************************************************************************)
(* Checkers.                                                               *)
(***************************************************************************)
\* what checker.Check can return for a target of the given type:
\* Status of the CheckResult and whether the error value is non-nil
CheckOutcomes(type) ==
    IF type = "snmp"
    THEN {[Status |-> "up", Err |-> FALSE],
          [Status |-> "down", Err |-> FALSE],   \* value mismatch
          [Status |-> "down", Err |-> TRUE]}    \* client.Get failed
    ELSE {[Status |-> "up", Err |-> FALSE],
          [Status |-> "down", Err |-> FALSE]}   \* dial failed

IdleWorker ==
    [pc |-> "idle", target |-> NoTarget, result |-> "", err |-> FALSE,
     status |-> NoStatus, historyCount |-> 0, upCount |-> 0]

\* results that have entered the pipeline or are about to enter it
InPipeline ==
    Len(history)
    + Cardinality({w \in Workers :
          workers[w].pc \in {"checking", "checked", "first", "save", "create"}})

TotalTimers == SumOver(timers, AllTargets)

\* results that went through saveResult: each wrote one line of the file log
ResultsApplied == SumOver(fileLog, TargetIds)

(***************************************************************************)
(* Init: the state after NewService() and NewManager().                    *)
(***************************************************************************)
MonitorInit ==
    /\ targets = [id \in TargetIds |-> NoTarget]
    /\ timers = [t \in AllTargets |-> 0]
    /\ checkQueue = <<>>
    /\ queueFullWarnings = 0
    /\ workers = [w \in Workers |-> IdleWorker]
    /\ statusRows = <<>>
    /\ history = <<>>
    /\ esBuffer = 0
    /\ fileLog = [id \in TargetIds |-> 0]
    /\ now = 0

\* a caller that is not inside ProcessEvent
IdleCall == [pc |-> "idle"]

AlertInit ==
    /\ rules = <<>>
    /\ channels = <<>>
    /\ eventBuffer = [id \in TargetIds |-> <<>>]
    /\ alerts = <<>>
    /\ clock = 1
    /\ calls = [c \in 1..NumCallers |-> IdleCall]
    /\ processed = [tid \in TargetIds |-> 0]

\* no request served yet, main waiting for a signal
ServerInit ==
    /\ lastID = 0
    /\ firstChecks = [id \in TargetIds |-> 0]
    /\ triggered = [t \in AllTargets |-> 0]
    /\ panicked = FALSE
    /\ ctxDone = FALSE
    /\ stopped = FALSE
    /\ enabledRow = [id \in TargetIds |-> FALSE]

\* no probe has run
NoProbe == [kind |-> "none"]

\* saveResult has not run for the probe
NotSaved == [Saved |-> FALSE, Fields |-> {}]

ProbeInit ==
    /\ probeInput = NoProbe
    /\ probeResult = NoProbe
    /\ globalDialContext = "default"
    /\ savedSSL = NotSaved

NotifyInit ==
    /\ alertRuleRows = <<>>
    /\ alertChannelRows = <<>>
    /\ sendLog = <<>>

Init == MonitorInit /\ AlertInit /\ ServerInit /\ ProbeInit /\ NotifyInit

(***************************************************************************)
(* Scheduler.                                                              *)
(***************************************************************************)
\* Service.monitorTarget up to its loop: time.NewTicker(d) panics unless
\* d > 0, and nothing recovers the panic of the goroutine
MonitorTargetStarts(t) ==
    IF t.Interval > 0
    THEN timers' = [timers EXCEPT ![t] = @ + 1] /\ UNCHANGED panicked
    ELSE panicked' = TRUE /\ UNCHANGED timers

\* what a call of Service.AddTarget does to the Service
AddTargetCall(t) ==
    /\ targets' = [targets EXCEPT ![t.ID] = t]
    /\ MonitorTargetStarts(t)

\* Service.AddTarget: store the target and start a monitorTarget goroutine
AddTarget(t) ==
    /\ TotalTimers < MaxTimers
    /\ AddTargetCall(t)
    /\ UNCHANGED <<checkQueue, queueFullWarnings, workers, statusRows,
                   history, esBuffer, fileLog, now>>
    /\ UNCHANGED alertVars
    /\ UNCHANGED <<lastID, firstChecks, triggered, ctxDone, stopped,
                   enabledRow>>
    /\ UNCHANGED probeVars
    /\ UNCHANGED notifyVars

\* Service.RemoveTarget: delete the registry entry when it exists
RemoveTarget(id) ==
    /\ targets[id] # NoTarget
    /\ targets' = [targets EXCEPT ![id] = NoTarget]
    /\ UNCHANGED <<timers, checkQueue, queueFullWarnings, workers,
                   statusRows, history, esBuffer, fileLog, now>>
    /\ UNCHANGED alertVars
    /\ UNCHANGED serverVars
    /\ UNCHANGED probeVars
    /\ UNCHANGED notifyVars

\* Tick with a blocking send "s.checkQueue <- target" (no default case)
TickBlocking(t) ==
    /\ timers[t] > 0
    /\ Len(checkQueue) < QueueCap
    /\ checkQueue' = Append(checkQueue, t)
    /\ UNCHANGED <<targets, timers, queueFullWarnings, workers, statusRows,
                   history, esBuffer, fileLog, now>>
    /\ UNCHANGED alertVars
    /\ UNCHANGED serverVars
    /\ UNCHANGED probeVars
    /\ UNCHANGED notifyVars

\* Service.monitorTarget, case <-ticker.C: non-blocking send of the captured
\* target, or the warning when the queue is full
Tick(t) ==
    /\ timers[t] > 0
    /\ IF Len(checkQueue) < QueueCap
       THEN /\ checkQueue' = Append(checkQueue, t)
            /\ UNCHANGED queueFullWarnings
       ELSE /\ queueFullWarnings' = Min(queueFullWarnings + 1, MaxWarnings)
            /\ UNCHANGED checkQueue
    /\ UNCHANGED <<targets, timers, workers, statusRows, history, esBuffer,
                   fileLog, now>>
    /\ UNCHANGED alertVars
    /\ UNCHANGED serverVars
    /\ UNCHANGED probeVars
    /\ UNCHANGED notifyVars

(***************************************************************************)
(* Worker pool and checkTarget.                                            *)
(***************************************************************************)
\* Service.checkWorker, case target := <-s.checkQueue, up to the call of
\* checker.Check in checkTarget (NewChecker succeeds for every type here)
Dequeue(w) ==
    /\ workers[w].pc = "idle"
    /\ checkQueue # <<>>
    /\ InPipeline < MaxHistory
    /\ workers' = [workers EXCEPT ![w] =
           [IdleWorker EXCEPT !.pc = "checking", !.target = Head(checkQueue)]]
    /\ checkQueue' = Tail(checkQueue)
    /\ UNCHANGED <<targets, timers, queueFullWarnings, statusRows, history,
                   esBuffer, fileLog, now>>
    /\ UNCHANGED alertVars
    /\ UNCHANGED serverVars
    /\ UNCHANGED probeVars
    /\ UNCHANGED notifyVars

\* checker.Check returns (result, err)
CheckReturns(w, o) ==
    /\ workers[w].pc = "checking"
    /\ o \in CheckOutcomes(workers[w].target.Type)
    /\ workers' = [workers EXCEPT ![w].pc = "checked",
                                  ![w].result = o.Status,
                                  ![w].err = o.Err]
    /\ UNCHANGED <<targets, timers, checkQueue, queueFullWarnings,
                   statusRows, history, esBuffer, fileLog, now>>
    /\ UNCHANGED alertVars
    /\ UNCHANGED serverVars
    /\ UNCHANGED probeVars
    /\ UNCHANGED notifyVars

\* the pc checkTarget continues at after checker.Check has returned:
\* "if err != nil { log.Printf(...); return }", else saveResult
AfterCheck(err) == IF err THEN "idle" ELSE "first"

\* Service.checkTarget after the call of Check
CheckTargetBranch(w) ==
    /\ workers[w].pc = "checked"
    /\ workers' = [workers EXCEPT ![w] =
           IF AfterCheck(workers[w].err) = "idle"
           THEN IdleWorker
           ELSE [@ EXCEPT !.pc = "first"]]
    /\ UNCHANGED <<targets, timers, checkQueue, queueFullWarnings,
                   statusRows, history, esBuffer, fileLog, now>>
    /\ UNCHANGED alertVars
    /\ UNCHANGED serverVars
    /\ UNCHANGED probeVars
    /\ UNCHANGED notifyVars

(***************************************************************************)
(* Service.saveResult, one action per store operation.                     *)
(***************************************************************************)
\* db.Where("target_id = ?").First(&status); on error a fresh MonitorStatus;
\* then status.Status = result.Status and status.CheckedAt = time.Now()
SaveResultFirst(w) ==
    /\ workers[w].pc = "first"
    /\ LET found == FirstStatus(statusRows, workers[w].target.ID)
           base  == IF found.ID = 0 THEN NewStatus(workers[w].target.ID)
                    ELSE found
       IN workers' = [workers EXCEPT ![w].pc = "save",
              ![w].status = [base EXCEPT !.Status = workers[w].result,
                                         !.CheckedAt = now]]
    /\ UNCHANGED <<targets, timers, checkQueue, queueFullWarnings,
                   statusRows, history, esBuffer, fileLog, now>>
    /\ UNCHANGED alertVars
    /\ UNCHANGED serverVars
    /\ UNCHANGED probeVars
    /\ UNCHANGED notifyVars

\* db.Save(&status)
SaveResultSave(w) ==
    /\ workers[w].pc = "save"
    /\ statusRows' = SaveStatusRow(statusRows, workers[w].status)
    /\ workers' = [workers EXCEPT ![w].pc = "create"]
    /\ UNCHANGED <<targets, timers, checkQueue, queueFullWarnings, history,
                   esBuffer, fileLog, now>>
    /\ UNCHANGED alertVars
    /\ UNCHANGED serverVars
    /\ UNCHANGED probeVars
    /\ UNCHANGED notifyVars

\* db.Create(&history), history.CheckedAt read with status.CheckedAt
SaveResultCreate(w) ==
    /\ workers[w].pc = "create"
    /\ history' = Append(history,
           [TargetID |-> workers[w].target.ID,
            Status |-> workers[w].result,
            CheckedAt |-> workers[w].status.CheckedAt])
    /\ workers' = [workers EXCEPT ![w].pc = "count", ![w].status = NoStatus]
    /\ UNCHANGED <<targets, timers, checkQueue, queueFullWarnings,
                   statusRows, esBuffer, fileLog, now>>
    /\ UNCHANGED alertVars
    /\ UNCHANGED serverVars
    /\ UNCHANGED probeVars
    /\ UNCHANGED notifyVars

(***************************************************************************)
(* Service.updateUptimePercentage, one action per store operation.         *)
(***************************************************************************)
\* first Count: history rows of the target in the trailing window
UptimeCountHistory(w) ==
    /\ workers[w].pc = "count"
    /\ workers' = [workers EXCEPT ![w].pc = "countup",
           ![w].historyCount =
               CountHistory(history, workers[w].target.ID,
                            now - UptimeWindowDays)]
    /\ UNCHANGED <<targets, timers, checkQueue, queueFullWarnings,
                   statusRows, history, esBuffer, fileLog, now>>
    /\ UNCHANGED alertVars
    /\ UNCHANGED serverVars
    /\ UNCHANGED probeVars
    /\ UNCHANGED notifyVars

\* second Count: the rows among them with status = 'up'
UptimeCountUp(w) ==
    /\ workers[w].pc = "countup"
    /\ workers' = [workers EXCEPT ![w].pc = "ufirst",
           ![w].upCount =
               CountUpHistory(history, workers[w].target.ID,
                              now - UptimeWindowDays)]
    /\ UNCHANGED <<targets, timers, checkQueue, queueFullWarnings,
                   statusRows, history, esBuffer, fileLog, now>>
    /\ UNCHANGED alertVars
    /\ UNCHANGED serverVars
    /\ UNCHANGED probeVars
    /\ UNCHANGED notifyVars

\* db.Where("target_id = ?").First(&status); without a row nothing is saved
UptimeFirst(w) ==
    /\ workers[w].pc = "ufirst"
    /\ LET found == FirstStatus(statusRows, workers[w].target.ID)
       IN workers' = [workers EXCEPT
              ![w].pc = IF found.ID = 0 THEN "sinks" ELSE "usave",
              ![w].status = found]
    /\ UNCHANGED <<targets, timers, checkQueue, queueFullWarnings,
                   statusRows, history, esBuffer, fileLog, now>>
    /\ UNCHANGED alertVars
    /\ UNCHANGED serverVars
    /\ UNCHANGED probeVars
    /\ UNCHANGED notifyVars

\* status.UptimePercentage = ...; db.Save(&status)
UptimeSave(w) ==
    /\ workers[w].pc = "usave"
    /\ statusRows' = SaveStatusRow(statusRows,
           [workers[w].status EXCEPT !.UptimePercentage =
               UptimeOf(workers[w].upCount, workers[w].historyCount)])
    /\ workers' = [workers EXCEPT ![w].pc = "sinks", ![w].status = NoStatus,
                                  ![w].historyCount = 0, ![w].upCount = 0]
    /\ UNCHANGED <<targets, timers, checkQueue, queueFullWarnings, history,
                   esBuffer, fileLog, now>>
    /\ UNCHANGED alertVars
    /\ UNCHANGED serverVars
    /\ UNCHANGED probeVars
    /\ UNCHANGED notifyVars

\* the tail of saveResult: non-blocking send on esBuffer, writeFileLog,
\* return to the worker loop
SaveResultSinks(w) ==
    /\ workers[w].pc = "sinks"
    /\ esBuffer' = EsEnqueue(esBuffer)
    /\ fileLog' = [fileLog EXCEPT ![workers[w].target.ID] = @ + 1]
    /\ workers' = [workers EXCEPT ![w] = IdleWorker]
    /\ UNCHANGED <<targets, timers, checkQueue, queueFullWarnings,
                   statusRows, history, now>>
    /\ UNCHANGED alertVars
    /\ UNCHANGED serverVars
    /\ UNCHANGED probeVars
    /\ UNCHANGED notifyVars

\* Service.esWriter, case task := <-s.esBuffer
EsWriter ==
    /\ esBuffer > 0
    /\ esBuffer' = esBuffer - 1
    /\ UNCHANGED <<targets, timers, checkQueue, queueFullWarnings, workers,
                   statusRows, history, fileLog, now>>
    /\ UNCHANGED alertVars
    /\ UNCHANGED serverVars
    /\ UNCHANGED probeVars
    /\ UNCHANGED notifyVars

\* the wall clock moves on by a day
AdvanceNow ==
    /\ now < MaxNow
    /\ now' = now + 1
    /\ UNCHANGED <<targets, timers, checkQueue, queueFullWarnings, workers,
                   statusRows, history, esBuffer, fileLog>>
    /\ UNCHANGED alertVars
    /\ UNCHANGED serverVars
    /\ UNCHANGED probeVars
    /\ UNCHANGED notifyVars

Next ==
    \/ \E t \in TargetInputs : AddTarget(t)
    \/ \E id \in TargetIds : RemoveTarget(id)
    \/ \E t \in TargetInputs : Tick(t)
    \/ \E w \in Workers : Dequeue(w)
    \/ \E w \in Workers : \E o \in CheckOutcomes("snmp") : CheckReturns(w, o)
    \/ \E w \in Workers : CheckTargetBranch(w)
    \/ \E w \in Workers : SaveResultFirst(w)
    \/ \E w \in Workers : SaveResultSave(w)
    \/ \E w \in Workers : SaveResultCreate(w)
    \/ \E w \in Workers : UptimeCountHistory(w)
    \/ \E w \in Workers : UptimeCountUp(w)
    \/ \E w \in Workers : UptimeFirst(w)
    \/ \E w \in Workers : UptimeSave(w)
    \/ \E w \in Workers : SaveResultSinks(w)
    \/ EsWriter
    \/ AdvanceNow

Spec == Init /\ [][Next]_vars

(***************************************************************************)
(* The same engine at the grain of one action per handler: a worker takes  *)
(* a target from the queue and runs checkTarget, saveResult included, to   *)
(* its end before any other pipeline run starts.                           *)
(***************************************************************************)
\* what a run of Service.checkTarget does to the store and the sinks when
\* checker.Check returns o
CheckTargetCall(t, o) ==
    LET h == Append(history,
                 [TargetID |-> t.ID, Status |-> o.Status, CheckedAt |-> now])
    IN  IF AfterCheck(o.Err) = "idle"
        THEN UNCHANGED <<statusRows, history, esBuffer, fileLog>>
        ELSE /\ history' = h
             /\ statusRows' =
                    UptimeUpdated(StatusSaved(statusRows, t.ID, o.Status, now),
                                  h, t.ID, now)
             /\ esBuffer' = EsEnqueue(esBuffer)
             /\ fileLog' = [fileLog EXCEPT ![t.ID] = @ + 1]

\* Service.checkWorker, case target := <-s.checkQueue, with the whole of
\* checkTarget; o is what checker.Check returns
RunCheck(w, o) ==
    /\ workers[w].pc = "idle"
    /\ checkQueue # <<>>
    /\ ResultsApplied < MaxHistory
    /\ o \in CheckOutcomes(Head(checkQueue).Type)
    /\ checkQueue' = Tail(checkQueue)
    /\ CheckTargetCall(Head(checkQueue), o)
    /\ UNCHANGED <<targets, timers, queueFullWarnings, workers, now>>
    /\ UNCHANGED alertVars
    /\ UNCHANGED serverVars
    /\ UNCHANGED probeVars
    /\ UNCHANGED notifyVars

SchedNext ==
    \/ \E t \in TargetInputs : AddTarget(t)
    \/ \E id \in TargetIds : RemoveTarget(id)
    \/ \E t \in TargetInputs : Tick(t)
    \/ \E w \in Workers : \E o \in CheckOutcomes("snmp") : RunCheck(w, o)
    \/ EsWriter
    \/ AdvanceNow

SchedSpec == Init /\ [][SchedNext]_vars

(***************************************************************************)
(* The HTTP and gRPC handlers that admit and remove targets, and main.     *)
(* One action per handler; the engine runs at the grain of SchedSpec.      *)
(***************************************************************************)
\* "interval" of a request: absent (the zero value) or one second
RequestIntervals == {0, 1}

\* the enabled column after db.Create: false is the zero value of the
\* field, for which the column default (true) is stored
CreatedEnabled(enabled) == IF enabled THEN enabled ELSE TRUE

\* Service.TriggerCheck: the registry lookup and "go s.checkTarget(target)";
\* an unknown id returns "target not found"
TriggerCheckCall(id) ==
    triggered' = IF targets[id] # NoTarget
                 THEN [triggered EXCEPT ![targets[id]] = @ + 1]
                 ELSE triggered

\* HTTP Server.addMonitor: interval 0 becomes 60, db.Create gives the id,
\* AddTarget, then a goroutine that sleeps 500 ms and calls TriggerCheck
addMonitor(p, enabled) ==
    /\ lastID < NumTargets
    /\ TotalTimers < MaxAdmits
    /\ lastID' = lastID + 1
    /\ enabledRow' = [enabledRow EXCEPT ![lastID + 1] = CreatedEnabled(enabled)]
    /\ AddTargetCall([ID |-> lastID + 1, Type |-> TypeOfInput(lastID + 1),
                      Interval |-> IF p = 0 THEN DefaultInterval ELSE p])
    /\ firstChecks' = [firstChecks EXCEPT ![lastID + 1] = @ + 1]
    /\ UNCHANGED <<checkQueue, queueFullWarnings, workers, statusRows,
                   history, esBuffer, fileLog, now>>
    /\ UNCHANGED alertVars
    /\ UNCHANGED <<triggered, ctxDone, stopped>>
    /\ UNCHANGED probeVars
    /\ UNCHANGED notifyVars

\* the goroutine of addMonitor after time.Sleep: TriggerCheck(id), a
\* failure is logged
FirstCheck(id) ==
    /\ firstChecks[id] > 0
    /\ firstChecks' = [firstChecks EXCEPT ![id] = @ - 1]
    /\ TriggerCheckCall(id)
    /\ UNCHANGED monitorVars
    /\ UNCHANGED alertVars
    /\ UNCHANGED <<lastID, panicked, ctxDone, stopped, enabledRow>>
    /\ UNCHANGED probeVars
    /\ UNCHANGED notifyVars

\* a checkTarget goroutine started by TriggerCheck runs; o is what
\* checker.Check returns
RunTriggered(t, o) ==
    /\ triggered[t] > 0
    /\ ResultsApplied < MaxHistory
    /\ o \in CheckOutcomes(t.Type)
    /\ triggered' = [triggered EXCEPT ![t] = @ - 1]
    /\ CheckTargetCall(t, o)
    /\ UNCHANGED <<targets, timers, checkQueue, queueFullWarnings, workers,
                   now>>
    /\ UNCHANGED alertVars
    /\ UNCHANGED <<lastID, firstChecks, panicked, ctxDone, stopped,
                   enabledRow>>
    /\ UNCHANGED probeVars
    /\ UNCHANGED notifyVars

\* HTTP Server.updateMonitor for a stored target: the interval and the
\* enabled flag of the request are stored as they are (db.Save), then
\* RemoveTarget and, when that succeeded, AddTarget with the updated target
updateMonitor(id, p, enabled) ==
    /\ targets[id] # NoTarget
    /\ TotalTimers < MaxAdmits
    /\ enabledRow' = [enabledRow EXCEPT ![id] = enabled]
    /\ AddTargetCall([targets[id] EXCEPT !.Interval = p])
    /\ UNCHANGED <<checkQueue, queueFullWarnings, workers, statusRows,
                   history, esBuffer, fileLog, now>>
    /\ UNCHANGED alertVars
    /\ UNCHANGED <<lastID, firstChecks, triggered, ctxDone, stopped>>
    /\ UNCHANGED probeVars
    /\ UNCHANGED notifyVars

\* HTTP Server.removeMonitor: the status rows, the history rows and the
\* target row go in one transaction, then RemoveTarget
removeMonitor(id) ==
    /\ id <= lastID
    /\ statusRows' = SelectSeq(statusRows, LAMBDA r : r.TargetID # id)
    /\ history' = SelectSeq(history, LAMBDA r : r.TargetID # id)
    /\ targets' = [targets EXCEPT ![id] = NoTarget]
    /\ enabledRow' = [enabledRow EXCEPT ![id] = FALSE]
    /\ UNCHANGED <<timers, checkQueue, queueFullWarnings, workers, esBuffer,
                   fileLog, now>>
    /\ UNCHANGED alertVars
    /\ UNCHANGED <<lastID, firstChecks, triggered, panicked, ctxDone,
                   stopped>>
    /\ UNCHANGED probeVars
    /\ UNCHANGED notifyVars

\* gRPC Server.AddMonitor: db.Create fills the zero interval with the
\* column default of models.MonitorTarget (60) and gives the id, AddTarget
AddMonitor(p, enabled) ==
    /\ lastID < NumTargets
    /\ TotalTimers < MaxAdmits
    /\ lastID' = lastID + 1
    /\ enabledRow' = [enabledRow EXCEPT ![lastID + 1] = CreatedEnabled(enabled)]
    /\ AddTargetCall([ID |-> lastID + 1, Type |-> TypeOfInput(lastID + 1),
                      Interval |-> IF p = 0 THEN DefaultInterval ELSE p])
    /\ UNCHANGED <<checkQueue, queueFullWarnings, workers, statusRows,
                   history, esBuffer, fileLog, now>>
    /\ UNCHANGED alertVars
    /\ UNCHANGED <<firstChecks, triggered, ctxDone, stopped>>
    /\ UNCHANGED probeVars
    /\ UNCHANGED notifyVars

\* main after "sig := <-sigChan": two log lines and return; the process
\* ends with whatever its goroutines were doing
Shutdown ==
    /\ stopped' = TRUE
    /\ UNCHANGED monitorVars
    /\ UNCHANGED alertVars
    /\ UNCHANGED <<lastID, firstChecks, triggered, panicked, ctxDone,
                   enabledRow>>
    /\ UNCHANGED probeVars
    /\ UNCHANGED notifyVars

ServerNext ==
    /\ ~panicked
    /\ ~stopped
    /\ \/ \E p \in RequestIntervals : \E e \in BOOLEAN : addMonitor(p, e)
       \/ \E p \in RequestIntervals : \E e \in BOOLEAN : AddMonitor(p, e)
       \/ \E id \in TargetIds : \E p \in RequestIntervals : \E e \in BOOLEAN :
              updateMonitor(id, p, e)
       \/ \E id \in TargetIds : removeMonitor(id)
       \/ \E id \in TargetIds : FirstCheck(id)
       \/ \E t \in AllTargets : \E o \in CheckOutcomes("snmp") :
              RunTriggered(t, o)
       \/ \E t \in AllTargets : Tick(t)
       \/ \E w \in Workers : \E o \in CheckOutcomes("snmp") : RunCheck(w, o)
       \/ EsWriter
       \/ AdvanceNow
       \/ Shutdown

ServerSpec == Init /\ [][ServerNext]_vars

(***************************************************************************)
(* Alert Manager (internal/alert/alert.go).                                *)
(***************************************************************************)
RuleIds == 1..NumRules

ChannelIds == 1..NumChannels

\* AlertCondition values handed to AddRule
FailureOnly ==
    [DownConsecutiveTimes |-> 2, SlowResponseThreshold |-> 0,
     StatusChanged |-> FALSE]

SlowOnly ==
    [DownConsecutiveTimes |-> 0, SlowResponseThreshold |-> 1,
     StatusChanged |-> FALSE]

ChangedOnly ==
    [DownConsecutiveTimes |-> 0, SlowResponseThreshold |-> 0,
     StatusChanged |-> TRUE]

AllConditions ==
    [DownConsecutiveTimes |-> 1, SlowResponseThreshold |-> 1,
     StatusChanged |-> TRUE]

\* an AlertRule; TargetID 0 is the nil pointer (all targets), LastAlertTime
\* 0 the zero time
Rule(id, tid, enabled, cond, cooldown) ==
    [ID |-> id, TargetID |-> tid, Enabled |-> enabled, Conditions |-> cond,
     Channels |-> <<1>>, CooldownSeconds |-> cooldown, LastAlertTime |-> 0]

\* AlertRule values handed to AddRule
RuleInputs ==
    UNION {{Rule(id, 0, TRUE, FailureOnly, 2),
            Rule(id, 1, TRUE, FailureOnly, 0),
            Rule(id, 1, TRUE, SlowOnly, 2),
            Rule(id, 0, TRUE, ChangedOnly, 0),
            Rule(id, 0, FALSE, AllConditions, 2)} : id \in RuleIds}

ChannelInputs == [ID : ChannelIds, Enabled : BOOLEAN]

\* target 1 is the target a rule can name, target 2 another target
EventTargets == {1, 2}

\* AlertEvent values handed to ProcessEvent (the fields the Manager reads)
EventInputs ==
    [TargetID : EventTargets, Status : Statuses, ResponseTime : {0, 2}]

\* what shouldAlert reads of an event held in the buffer
Buffered(event) == [Status |-> event.Status]

\* m[k] = v added to a map held as a function
MapPut(m, k, v) ==
    [x \in DOMAIN m \cup {k} |-> IF x = k THEN v ELSE m[x]]

\* delete(m, k)
MapDelete(m, k) == [x \in DOMAIN m \ {k} |-> m[x]]

\* Manager.AddRule
AddRule(r) ==
    /\ rules' = MapPut(rules, r.ID, r)
    /\ alerts' = <<>>
    /\ UNCHANGED <<channels, eventBuffer, clock>>
    /\ UNCHANGED <<calls, processed>>
    /\ UNCHANGED monitorVars
    /\ UNCHANGED serverVars
    /\ UNCHANGED probeVars
    /\ UNCHANGED notifyVars

\* Manager.RemoveRule
RemoveRule(id) ==
    /\ id \in DOMAIN rules
    /\ rules' = MapDelete(rules, id)
    /\ alerts' = <<>>
    /\ UNCHANGED <<channels, eventBuffer, clock>>
    /\ UNCHANGED <<calls, processed>>
    /\ UNCHANGED monitorVars
    /\ UNCHANGED serverVars
    /\ UNCHANGED probeVars
    /\ UNCHANGED notifyVars

\* Manager.AddChannel
AddChannel(c) ==
    /\ channels' = MapPut(channels, c.ID, c)
    /\ alerts' = <<>>
    /\ UNCHANGED <<rules, eventBuffer, clock>>
    /\ UNCHANGED <<calls, processed>>
    /\ UNCHANGED monitorVars
    /\ UNCHANGED serverVars
    /\ UNCHANGED probeVars
    /\ UNCHANGED notifyVars

\* Manager.RemoveChannel
RemoveChannel(id) ==
    /\ id \in DOMAIN channels
    /\ channels' = MapDelete(channels, id)
    /\ alerts' = <<>>
    /\ UNCHANGED <<rules, eventBuffer, clock>>
    /\ UNCHANGED <<calls, processed>>
    /\ UNCHANGED monitorVars
    /\ UNCHANGED serverVars
    /\ UNCHANGED probeVars
    /\ UNCHANGED notifyVars

\* BufferAppend trimming at the wrong end: the newest event goes
BufferAppendKeepsOldest(buf, event) ==
    LET b == Append(buf, Buffered(event))
    IN  IF Len(b) > EventBufferCap THEN SubSeq(b, 1, EventBufferCap) ELSE b

\* ProcessEvent lines 150-158: append, then keep the newest 100
BufferAppend(buf, event) ==
    LET b == Append(buf, Buffered(event))
    IN  IF Len(b) > EventBufferCap THEN Tail(b) ELSE b

\* shouldAlert lines 195-201: downs counted from the newest event backwards
RECURSIVE ConsecutiveDown(_)
ConsecutiveDown(events) ==
    IF events = <<>> THEN 0
    ELSE IF events[Len(events)].Status = "down"
         THEN 1 + ConsecutiveDown(SubSeq(events, 1, Len(events) - 1))
         ELSE 0

\* shouldAlert with "consecutiveDown > conditions.DownConsecutiveTimes"
shouldAlertStrict(event, rule, events) ==
    LET c == rule.Conditions
    IN  \/ /\ c.DownConsecutiveTimes > 0
           /\ event.Status = "down"
           /\ ConsecutiveDown(events) > c.DownConsecutiveTimes
        \/ /\ c.SlowResponseThreshold > 0
           /\ event.ResponseTime > c.SlowResponseThreshold
        \/ /\ c.StatusChanged
           /\ Len(events) >= 2
           /\ events[Len(events) - 1].Status # event.Status

\* Manager.shouldAlert, events being m.eventBuffer[event.TargetID]
shouldAlert(event, rule, events) ==
    LET c == rule.Conditions
    IN  \/ /\ c.DownConsecutiveTimes > 0
           /\ event.Status = "down"
           /\ ConsecutiveDown(events) >= c.DownConsecutiveTimes
        \/ /\ c.SlowResponseThreshold > 0
           /\ event.ResponseTime > c.SlowResponseThreshold
        \/ /\ c.StatusChanged
           /\ Len(events) >= 2
           /\ events[Len(events) - 1].Status # event.Status

\* CoolingDown with the comparison of the elapsed time turned around
CoolingDownInverted(rule, t) ==
    /\ rule.CooldownSeconds > 0
    /\ rule.LastAlertTime # 0
    /\ t - rule.LastAlertTime > rule.CooldownSeconds

\* ProcessEvent lines 172-176: the rule is inside its cooldown at time t
CoolingDown(rule, t) ==
    /\ rule.CooldownSeconds > 0
    /\ rule.LastAlertTime # 0
    /\ t - rule.LastAlertTime < rule.CooldownSeconds

\* ProcessEvent lines 162-179: the rule reaches sendAlert for the event
RuleFires(rule, event, events, t) ==
    /\ rule.Enabled
    /\ ~(rule.TargetID # 0 /\ rule.TargetID # event.TargetID)
    /\ ~CoolingDown(rule, t)
    /\ shouldAlert(event, rule, events)

\* Manager.sendAlert: the channels of the rule a notification goes to (the
\* senders are outbound I/O; the call itself is logged on alerts)
SendingChannels(rule) ==
    {i \in 1..Len(rule.Channels) :
        /\ rule.Channels[i] \in DOMAIN channels
        /\ channels[rule.Channels[i]].Enabled}

\* AfterAlert keeping the old time when sendAlert notified no channel
AfterAlertWhenSent(rule, t) ==
    IF SendingChannels(rule) = {} THEN rule
    ELSE [rule EXCEPT !.LastAlertTime = t]

\* rule.LastAlertTime after the rule has reached sendAlert at time t
AfterAlert(rule, t) == [rule EXCEPT !.LastAlertTime = t]

\* Manager.ProcessEvent.  "range m.rules" visits every rule once, in an order
\* the runtime picks; what one rule decides reads the event, the buffer, the
\* time and that rule only, so alerts lists the rules fired by ascending id
ProcessEvent(event) ==
    /\ LET events == BufferAppend(eventBuffer[event.TargetID], event)
           fires(id) == RuleFires(rules[id], event, events, clock)
           fired == SelectSeq([i \in 1..NumRules |-> i],
                              LAMBDA id : id \in DOMAIN rules /\ fires(id))
       IN  /\ eventBuffer' = [eventBuffer EXCEPT ![event.TargetID] = events]
           /\ rules' = [id \in DOMAIN rules |->
                  IF fires(id) THEN AfterAlert(rules[id], clock)
                  ELSE rules[id]]
           /\ alerts' = fired
    /\ UNCHANGED <<channels, clock, calls, processed>>
    /\ UNCHANGED monitorVars
    /\ UNCHANGED serverVars
    /\ UNCHANGED probeVars
    /\ UNCHANGED notifyVars

\* the wall clock moves on by a second
AdvanceClock ==
    /\ clock < MaxClock
    /\ clock' = clock + 1
    /\ alerts' = <<>>
    /\ UNCHANGED <<rules, channels, eventBuffer, calls, processed>>
    /\ UNCHANGED monitorVars
    /\ UNCHANGED serverVars
    /\ UNCHANGED probeVars
    /\ UNCHANGED notifyVars

AlertNext ==
    \/ \E r \in RuleInputs : AddRule(r)
    \/ \E id \in RuleIds : RemoveRule(id)
    \/ \E e \in EventInputs : ProcessEvent(e)
    \/ AdvanceClock

AlertSpec == Init /\ [][AlertNext]_vars

\* ProcessEvent called by several goroutines at once.  The Manager has no
\* lock, so the calls interleave at their reads and writes of the buffer map
\* and of the rules; each step below is one such read or write.
Callers == 1..NumCallers

\* the events and the rule of the concurrent calls: results of target 1,
\* and a failure-count rule with a cooldown
RaceEvents == {e \in EventInputs : e.TargetID = 1 /\ e.ResponseTime = 0}

RaceRules == {Rule(1, 0, TRUE, FailureOnly, 2)}

\* line 154, right-hand side: the caller reads the slice of the target
ProcessEventRead(c, event) ==
    /\ calls[c].pc = "idle"
    /\ SumOver(processed, TargetIds) < MaxCalls
    /\ processed' = [processed EXCEPT ![event.TargetID] = @ + 1]
    /\ calls' = [calls EXCEPT ![c] =
                    [pc |-> "append", event |-> event,
                     events |-> eventBuffer[event.TargetID]]]
    /\ alerts' = <<>>
    /\ UNCHANGED <<rules, channels, eventBuffer, clock>>
    /\ UNCHANGED monitorVars
    /\ UNCHANGED serverVars
    /\ UNCHANGED probeVars
    /\ UNCHANGED notifyVars

\* lines 154-158: the slice the caller read, with its event appended and
\* trimmed, is stored in the map
ProcessEventStore(c) ==
    /\ calls[c].pc = "append"
    /\ eventBuffer' = [eventBuffer EXCEPT ![calls[c].event.TargetID] =
                           BufferAppend(calls[c].events, calls[c].event)]
    /\ calls' = [calls EXCEPT ![c] =
                    [pc |-> "rules", event |-> calls[c].event]]
    /\ alerts' = <<>>
    /\ UNCHANGED <<rules, channels, clock, processed>>
    /\ UNCHANGED monitorVars
    /\ UNCHANGED serverVars
    /\ UNCHANGED probeVars
    /\ UNCHANGED notifyVars

\* lines 162-179: the caller reads the rules, their last alert times and
\* the buffer and decides which rules reach sendAlert
ProcessEventGate(c) ==
    /\ calls[c].pc = "rules"
    /\ LET event == calls[c].event
           events == eventBuffer[event.TargetID]
       IN  calls' = [calls EXCEPT ![c] =
                        [pc |-> "send", event |-> event,
                         fires |-> {id \in DOMAIN rules :
                                       RuleFires(rules[id], event, events,
                                                 clock)}]]
    /\ alerts' = <<>>
    /\ UNCHANGED <<rules, channels, eventBuffer, clock, processed>>
    /\ UNCHANGED monitorVars
    /\ UNCHANGED serverVars
    /\ UNCHANGED probeVars
    /\ UNCHANGED notifyVars

\* lines 180-181: sendAlert and the write of LastAlertTime for those rules
ProcessEventSend(c) ==
    /\ calls[c].pc = "send"
    /\ alerts' = SelectSeq([i \in 1..NumRules |-> i],
                           LAMBDA id : id \in calls[c].fires)
    /\ rules' = [id \in DOMAIN rules |->
                    IF id \in calls[c].fires
                    THEN AfterAlert(rules[id], clock)
                    ELSE rules[id]]
    /\ calls' = [calls EXCEPT ![c] = IdleCall]
    /\ UNCHANGED <<channels, eventBuffer, clock, processed>>
    /\ UNCHANGED monitorVars
    /\ UNCHANGED serverVars
    /\ UNCHANGED probeVars
    /\ UNCHANGED notifyVars

AlertRaceNext ==
    \/ /\ rules = <<>>
       /\ \E r \in RaceRules : AddRule(r)
    \/ \E c \in Callers : \E e \in RaceEvents : ProcessEventRead(c, e)
    \/ \E c \in Callers : ProcessEventStore(c)
    \/ \E c \in Callers : ProcessEventGate(c)
    \/ \E c \in Callers : ProcessEventSend(c)
    \/ AdvanceClock

AlertRaceSpec == Init /\ [][AlertRaceNext]_vars

\* the manager with its channel map changing as well
AlertChannelNext ==
    \/ AlertNext
    \/ \E c \in ChannelInputs : AddChannel(c)
    \/ \E id \in ChannelIds : RemoveChannel(id)

AlertChannelSpec == Init /\ [][AlertChannelNext]_vars

\* the manager fed with the results of one target, its rules being the
\* enabled rules with a cooldown and its channels coming and going
CooldownRules == {r \in RuleInputs : r.Enabled /\ r.CooldownSeconds > 0}

CooldownEvents == {e \in EventInputs : e.TargetID = 1}

AlertCooldownNext ==
    \/ \E r \in CooldownRules : AddRule(r)
    \/ \E e \in CooldownEvents : ProcessEvent(e)
    \/ \E c \in ChannelInputs : AddChannel(c)
    \/ \E id \in ChannelIds : RemoveChannel(id)
    \/ AdvanceClock

AlertCooldownSpec == Init /\ [][AlertCooldownNext]_vars

(***************************************************************************)
(* Alert Service over the database (internal/alert/notifier.go).           *)
(***************************************************************************)
\* a row of table alert_rules (models.AlertRule) of target 1 and channel 1
AlertRuleRow(id, type, value, enabled, cooldown) ==
    [ID |-> id, TargetID |-> 1, ChannelID |-> 1, ThresholdType |-> type,
     ThresholdValue |-> value, Enabled |-> enabled,
     CooldownSeconds |-> cooldown]

\* rows handed to UpdateAlertRule
AlertRuleRows ==
    UNION {{AlertRuleRow(id, "failure_count", 2, TRUE, 2),
            AlertRuleRow(id, "response_time", 2, TRUE, 0),
            AlertRuleRow(id, "failure_count", 2, FALSE, 2)} : id \in RuleIds}

\* rows handed to UpdateAlertChannel (models.AlertChannel; Type and Config
\* are a known type and valid JSON)
AlertChannelRows == [ID : ChannelIds, Enabled : BOOLEAN]

\* the metadata map of a SendAlert call: whether it has the key
\* "response_time", and the number its value spells
Metadatas ==
    {[HasResponseTime |-> FALSE, ResponseTime |-> 0],
     [HasResponseTime |-> TRUE, ResponseTime |-> 1],
     [HasResponseTime |-> TRUE, ResponseTime |-> 3]}

\* arguments of SendAlert; both targets have a row in monitor_targets
SendInputs ==
    [TargetID : EventTargets, Status : Statuses, Metadata : Metadatas]

\* Service.UpdateAlertRule: db.Save(rule)
UpdateAlertRule(row) ==
    /\ alertRuleRows' = MapPut(alertRuleRows, row.ID, row)
    /\ UNCHANGED <<alertChannelRows, sendLog>>
    /\ UNCHANGED monitorVars
    /\ UNCHANGED alertVars
    /\ UNCHANGED serverVars
    /\ UNCHANGED probeVars

\* Service.UpdateAlertChannel: db.Save(channel)
UpdateAlertChannel(row) ==
    /\ alertChannelRows' = MapPut(alertChannelRows, row.ID, row)
    /\ UNCHANGED <<alertRuleRows, sendLog>>
    /\ UNCHANGED monitorVars
    /\ UNCHANGED alertVars
    /\ UNCHANGED serverVars
    /\ UNCHANGED probeVars

\* Service.shouldTriggerAlert
shouldTriggerAlert(rule, status, metadata) ==
    \/ status = "down"
    \/ /\ rule.ThresholdType = "response_time"
       /\ metadata.HasResponseTime

\* SendAlert lines 350-404: the rules of the target a notifier is started
\* for
DispatchedRules(targetID, status, metadata) ==
    {id \in DOMAIN alertRuleRows :
        LET rule == alertRuleRows[id]
        IN  /\ rule.TargetID = targetID
            /\ rule.Enabled
            /\ shouldTriggerAlert(rule, status, metadata)
            /\ rule.ChannelID \in DOMAIN alertChannelRows
            /\ alertChannelRows[rule.ChannelID].Enabled}

\* Service.SendAlert; the call and the rules it dispatched for are logged
SendAlert(in) ==
    /\ Len(sendLog) < MaxSends
    /\ sendLog' = Append(sendLog,
           [TargetID |-> in.TargetID, Status |-> in.Status,
            Metadata |-> in.Metadata, Time |-> clock,
            Dispatched |-> {alertRuleRows[id] :
                id \in DispatchedRules(in.TargetID, in.Status,
                                       in.Metadata)}])
    /\ UNCHANGED <<alertRuleRows, alertChannelRows>>
    /\ UNCHANGED monitorVars
    /\ UNCHANGED alertVars
    /\ UNCHANGED serverVars
    /\ UNCHANGED probeVars

NotifyNext ==
    \/ \E row \in AlertRuleRows : UpdateAlertRule(row)
    \/ \E row \in AlertChannelRows : UpdateAlertChannel(row)
    \/ \E in \in SendInputs : SendAlert(in)
    \/ AdvanceClock

NotifySpec == Init /\ [][NotifyNext]_vars

(***************************************************************************)
(* The probes (Checker.Check of each type) as functions of the target and  *)
(* of what the network answers.                                            *)
(***************************************************************************)
\* int(x / y) of Go: the quotient truncated toward zero
TruncDiv(x, y) == IF x >= 0 THEN x \div y ELSE -((-x) \div y)

\* the seconds of "Hours() / 24"
DaySeconds == 24 * 3600

\* seconds from the handshake to the expiry of the leaf: around the expiry
\* and around 1, 2, 7, 8, 30 and 31 days
ExpiryInputs ==
    {d * DaySeconds + e : d \in {0, 1, 2, 7, 8, 30, 31}, e \in {-1, 0, 1}}

\* an SSL target and its server: TlsOk is whether name, chain of trust and
\* protocol pass; UntilAtDial the seconds to not_after of the leaf when the
\* handshake verifies it; Elapsed the seconds from there to time.Until
SSLInputs ==
    [TlsOk : BOOLEAN, UntilAtDial : ExpiryInputs, Elapsed : {0, 2},
     Certs : 1..MaxChain, CriticalDays : {1, 7}, WarnDays : {7, 30},
     GetChain : BOOLEAN]

\* tls.DialWithDialer with InsecureSkipVerify false: the handshake fails
\* when verification fails, an expired leaf included
HandshakeOk(in) == in.TlsOk /\ in.UntilAtDial >= 0

\* SSLChecker.Check lines 107-108
DaysUntilExpiry(in) == TruncDiv(in.UntilAtDial - in.Elapsed, DaySeconds)

\* SSLChecker.Check lines 110-126: the status of a leaf with d days left
ExpiryStatus(d, in) ==
    IF d < 0 THEN "down"
    ELSE IF d <= in.CriticalDays THEN "critical"
    ELSE IF d <= in.WarnDays THEN "warning"
    ELSE "up"

\* SSLChecker.Check lines 203-211: the keys of Response.Headers
SSLHeaderKeys ==
    {"issuer", "subject", "serial", "not_before", "not_after", "chain_count",
     "chain_summary"}

\* SSLChecker.Check: Chain is the length of Data["certificate_chain"], 0
\* when the key is absent; Days is Response.StatusCode; Headers the keys of
\* Response.Headers
SSLCheckResult(in) ==
    IF ~HandshakeOk(in)
    THEN [Status |-> "down", ErrorType |-> "ssl_error", Chain |-> 0,
          Days |-> 0, Headers |-> {}, Err |-> FALSE, Panics |-> FALSE]
    ELSE [Status |-> ExpiryStatus(DaysUntilExpiry(in), in),
          ErrorType |-> "",
          Chain |-> IF in.GetChain THEN in.Certs ELSE 0,
          Days |-> DaysUntilExpiry(in), Headers |-> SSLHeaderKeys,
          Err |-> FALSE, Panics |-> FALSE]

\* a probe of a target of type ssl
SSLCheck(in) ==
    /\ probeInput = NoProbe
    /\ probeInput' = [kind |-> "ssl", ssl |-> in]
    /\ probeResult' = [kind |-> "ssl", result |-> SSLCheckResult(in)]
    /\ UNCHANGED <<globalDialContext, savedSSL>>
    /\ UNCHANGED monitorVars
    /\ UNCHANGED alertVars
    /\ UNCHANGED serverVars
    /\ UNCHANGED notifyVars

\* the status codes a server answers with
StatusCodes == {199, 200, 299, 300, 301, 302, 404, 500}

\* the values of MonitorTarget.ExpectedStatusCodes
ExpectedCodeLists ==
    UNION {[1..n -> {200, 301, 404}] : n \in 0..MaxExpectedCodes}

\* the values of MonitorTarget.DNSServer: none, or a resolver of the target
DNSServers == {"", "10.0.0.53"}

\* an HTTP target and what its request meets: the request cannot be built,
\* client.Do fails, or a response with status Code arrives
HTTPInputs ==
    [Outcome : {"request_error", "network_error", "response"},
     Code : StatusCodes, Expected : ExpectedCodeLists,
     FollowRedirects : BOOLEAN, MaxRedirects : {0, 3},
     DNSServer : DNSServers]

RECURSIVE CodeExpected(_, _)
\* the loop of determineStatus over expectedCodes
CodeExpected(statusCode, expectedCodes) ==
    IF expectedCodes = <<>> THEN FALSE
    ELSE IF statusCode = Head(expectedCodes) THEN TRUE
    ELSE CodeExpected(statusCode, Tail(expectedCodes))

determineStatusOpen(statusCode, expectedCodes) ==
    IF Len(expectedCodes) = 0
    THEN IF statusCode >= 200 /\ statusCode <= 300 THEN "up" ELSE "down"
    ELSE IF CodeExpected(statusCode, expectedCodes) THEN "up" ELSE "down"

determineStatus(statusCode, expectedCodes) ==
    IF Len(expectedCodes) = 0
    THEN IF statusCode >= 200 /\ statusCode < 300 THEN "up" ELSE "down"
    ELSE IF CodeExpected(statusCode, expectedCodes) THEN "up" ELSE "down"

\* HTTPChecker.Check lines 94-116: the probe keeps the client of
\* GetHTTPClient; a redirect policy replaces it by a new http.Client that
\* has no Transport
UsesGlobalClient(in) == in.FollowRedirects /\ in.MaxRedirects <= 0

\* line 121: client.Transport.(*http.Transport) panics on the nil Transport
\* of a new client
TransportAssertionPanics(in) == in.DNSServer # "" /\ ~UsesGlobalClient(in)

\* lines 119-128: the DialContext of the shared transport after the probe;
\* the custom resolver is assigned into the transport the client points to
DialContextAfter(in, dial) ==
    IF in.Outcome # "request_error" /\ in.DNSServer # ""
       /\ UsesGlobalClient(in)
    THEN in.DNSServer
    ELSE dial

\* the resolver client.Do dials through: the DialContext of the shared
\* transport, or that of http.DefaultTransport for a client without one
DialedThrough(in, dial) ==
    IF UsesGlobalClient(in) THEN DialContextAfter(in, dial) ELSE "default"

\* HTTPChecker.Check, dial being the DialContext of the shared transport:
\* it sets no Data, so Chain is 0; Code is Response.StatusCode, 0 without a
\* response; Resolver is what the request dialed through; Headers are the
\* lower-case keys of Response.Headers (those cloned from the response are
\* in canonical form, "Issuer")
HTTPCheckResult(in, dial) ==
    IF in.Outcome = "request_error"
    THEN [Status |-> "down", ErrorType |-> "", Chain |-> 0, Code |-> 0,
          Resolver |-> "", Headers |-> {}, Err |-> FALSE, Panics |-> FALSE]
    ELSE IF TransportAssertionPanics(in)
    THEN [Status |-> "", ErrorType |-> "", Chain |-> 0, Code |-> 0,
          Resolver |-> "", Headers |-> {}, Err |-> FALSE, Panics |-> TRUE]
    ELSE IF in.Outcome = "network_error"
    THEN [Status |-> "down", ErrorType |-> "network_error", Chain |-> 0,
          Code |-> 0, Resolver |-> DialedThrough(in, dial),
          Headers |-> {}, Err |-> FALSE, Panics |-> FALSE]
    ELSE [Status |-> determineStatus(in.Code, in.Expected),
          ErrorType |-> "", Chain |-> 0, Code |-> in.Code,
          Resolver |-> DialedThrough(in, dial),
          Headers |-> {"resolved_ip"}, Err |-> FALSE, Panics |-> FALSE]

\* a probe of a target of type http
HTTPCheck(in) ==
    /\ probeInput = NoProbe
    /\ probeInput' = [kind |-> "http", http |-> in]
    /\ probeResult' = [kind |-> "http",
                       result |-> HTTPCheckResult(in, globalDialContext)]
    /\ globalDialContext' = DialContextAfter(in, globalDialContext)
    /\ UNCHANGED savedSSL
    /\ UNCHANGED monitorVars
    /\ UNCHANGED alertVars
    /\ UNCHANGED serverVars
    /\ UNCHANGED notifyVars

\* an https target: its ssl_check flag, its SSL options and TLS server, and
\* what the HTTP request meets
HTTPSInputs ==
    [SSLCheck : BOOLEAN,
     ssl : {in \in SSLInputs :
               in.Elapsed = 0 /\ in.CriticalDays = 7 /\ in.WarnDays = 30},
     http : {in \in HTTPInputs :
               in.Expected = <<>> /\ in.Code \in {200, 500}}]

\* HTTPSChecker.Check lines 57-59: the chain of the SSL result is copied
CopiedChain(sslResult) == sslResult.Chain

\* HTTPSChecker.Check lines 70-87: the header keys added to the HTTP result
MergedHeaders(sslResult) ==
    {k \in {"ssl_issuer"} : "issuer" \in sslResult.Headers}
      \cup {k \in {"ssl_subject"} : "subject" \in sslResult.Headers}
      \cup {k \in {"ssl_serial"} : "serial" \in sslResult.Headers}
      \cup {k \in {"days_until_expiry"} : sslResult.Chain > 0}

\* HTTPSChecker.Check: the HTTP result, with the data of the SSL result
\* merged in when ssl_check is set; Error stays that of the HTTP result
HTTPSCheckResult(in, dial) ==
    LET httpResult == HTTPCheckResult(in.http, dial)
        sslResult == SSLCheckResult(in.ssl)
    IN  IF ~in.SSLCheck \/ httpResult.Panics THEN httpResult
        ELSE [httpResult EXCEPT
                 !.Chain = CopiedChain(sslResult),
                 !.Headers = @ \cup MergedHeaders(sslResult),
                 !.Status = IF sslResult.Status = "down" THEN "down" ELSE @]

\* a probe of a target of type https
HTTPSCheck(in) ==
    /\ probeInput = NoProbe
    /\ probeInput' = [kind |-> "https", https |-> in]
    /\ probeResult' = [kind |-> "https",
                       result |-> HTTPSCheckResult(in, globalDialContext)]
    /\ globalDialContext' = DialContextAfter(in.http, globalDialContext)
    /\ UNCHANGED savedSSL
    /\ UNCHANGED monitorVars
    /\ UNCHANGED alertVars
    /\ UNCHANGED serverVars
    /\ UNCHANGED notifyVars

\* the numbers an agent answers with
SNMPNumbers == {500, 1000, 1500}

\* fmt.Sprintf("%d", n) and fmt.Sprintf("%v", n) of these numbers
FormatInt(n) ==
    CASE n = 500 -> "500"
      [] n = 1000 -> "1000"
      [] n = 1500 -> "1500"

\* strconv.ParseFloat succeeds on s
IsNum(s) == s \in {"500", "1000", "1500"}

\* the number strconv.ParseFloat reads from s
ParseFloat(s) ==
    CASE s = "500" -> 500
      [] s = "1000" -> 1000
      [] s = "1500" -> 1500

\* the variable of an answer: gosnmp decodes an Integer to a Go int, an
\* OctetString to []byte, a Gauge32 to uint
SNMPVariables ==
    [Type : {"Integer", "Gauge32"}, Value : SNMPNumbers]
      \cup [Type : {"OctetString"}, Value : {"500", "1000", "up", "down"}]

\* an SNMP target and its agent: client.Get fails, answers without a
\* variable, or answers with Variable
SNMPInputs ==
    [Outcome : {"error", "empty", "value"},
     Variable : SNMPVariables,
     Operator : {"", "eq", "ne", "gt", "lt", "ge", "le", "like"},
     Expected : {"", "1000", "up"}]

\* SNMPChecker.Check lines 85-94: the value as a string; the assertion
\* variable.Value.(uint) of the Integer case panics on an int
AssertionPanics(variable) == variable.Type = "Integer"

actualValueOf(variable) ==
    IF variable.Type = "OctetString" THEN variable.Value
    ELSE FormatInt(variable.Value)

\* SNMPChecker.Check lines 120-148
snmpShouldAlert(actualValue, operator, expectedValue) ==
    IF IsNum(expectedValue) /\ IsNum(actualValue)
    THEN LET actualNum == ParseFloat(actualValue)
             expectedNum == ParseFloat(expectedValue)
         IN  CASE operator = "eq" -> actualNum # expectedNum
               [] operator = "ne" -> actualNum = expectedNum
               [] operator = "gt" -> actualNum <= expectedNum
               [] operator = "lt" -> actualNum >= expectedNum
               [] operator = "ge" -> actualNum < expectedNum
               [] operator = "le" -> actualNum > expectedNum
               [] OTHER -> FALSE
    ELSE CASE operator = "eq" -> actualValue # expectedValue
           [] operator = "ne" -> actualValue = expectedValue
           [] OTHER -> actualValue # expectedValue

\* SNMPChecker.Check: Err is the error returned next to the result
SNMPCheckResult(in) ==
    IF in.Outcome \in {"error", "empty"}
    THEN [Status |-> "down", Err |-> TRUE, Headers |-> {}, Panics |-> FALSE]
    ELSE IF AssertionPanics(in.Variable)
    THEN [Status |-> "", Err |-> FALSE, Headers |-> {}, Panics |-> TRUE]
    ELSE IF in.Operator # "" /\ in.Expected # ""
            /\ snmpShouldAlert(actualValueOf(in.Variable), in.Operator,
                               in.Expected)
    THEN [Status |-> "down", Err |-> FALSE, Headers |-> {}, Panics |-> FALSE]
    ELSE [Status |-> "up", Err |-> FALSE, Headers |-> {}, Panics |-> FALSE]

\* a probe of a target of type snmp
SNMPCheck(in) ==
    /\ probeInput = NoProbe
    /\ probeInput' = [kind |-> "snmp", snmp |-> in]
    /\ probeResult' = [kind |-> "snmp", result |-> SNMPCheckResult(in)]
    /\ UNCHANGED <<globalDialContext, savedSSL>>
    /\ UNCHANGED monitorVars
    /\ UNCHANGED alertVars
    /\ UNCHANGED serverVars
    /\ UNCHANGED notifyVars

\* a ping run: the command fails, or its output gives packetsSent and
\* packetsReceived
PingInputs ==
    [Failed : BOOLEAN, Sent : 0..MaxPings, Received : 0..MaxPings]

\* math.Ceil(x / y) for x >= 0 and y > 0
CeilDiv(x, y) == (x + y - 1) \div y

\* parsePingOutput lines 383-387
PacketLoss(sent, received) ==
    IF sent > 0
    THEN IF sent >= received
         THEN CeilDiv((sent - received) * 100, sent)
         ELSE -(((received - sent) * 100) \div sent)
    ELSE 0

\* PingChecker.Check lines 262-275
LossStatus(packetLoss) ==
    IF packetLoss = 100 THEN "down"
    ELSE IF packetLoss > 50 THEN "degraded"
    ELSE "up"

\* PingChecker.Check
PingCheckResult(in) ==
    IF in.Failed
    THEN [Status |-> "down", Err |-> TRUE, Loss |-> 100, Headers |-> {},
          Panics |-> FALSE]
    ELSE [Status |-> LossStatus(PacketLoss(in.Sent, in.Received)),
          Err |-> FALSE, Loss |-> PacketLoss(in.Sent, in.Received),
          Headers |-> {}, Panics |-> FALSE]

\* a probe of a target of type ping
PingCheck(in) ==
    /\ probeInput = NoProbe
    /\ probeInput' = [kind |-> "ping", ping |-> in]
    /\ probeResult' = [kind |-> "ping", result |-> PingCheckResult(in)]
    /\ UNCHANGED <<globalDialContext, savedSSL>>
    /\ UNCHANGED monitorVars
    /\ UNCHANGED alertVars
    /\ UNCHANGED serverVars
    /\ UNCHANGED notifyVars

\* saveResult lines 233-250: the typed SSL fields of the status row that
\* are set from the headers of a result of a target of this type
LiftedSSLFields(type, headers) ==
    IF type \in {"https", "ssl", "tls"}
    THEN {f \in {"SSLDaysUntilExpiry"} : "days_until_expiry" \in headers}
           \cup {f \in {"SSLIssuer"} : "issuer" \in headers}
           \cup {f \in {"SSLSubject"} : "subject" \in headers}
           \cup {f \in {"SSLEserial"} : "serial" \in headers}
    ELSE {}

\* checkTarget after checker.Check returned without error: saveResult on a
\* target that has no status row yet
SaveProbeResult ==
    /\ probeInput # NoProbe
    /\ ~savedSSL.Saved
    /\ ~probeResult.result.Panics
    /\ ~probeResult.result.Err
    /\ savedSSL' = [Saved |-> TRUE,
                    Fields |-> LiftedSSLFields(probeResult.kind,
                                               probeResult.result.Headers)]
    /\ UNCHANGED <<probeInput, probeResult, globalDialContext>>
    /\ UNCHANGED monitorVars
    /\ UNCHANGED alertVars
    /\ UNCHANGED serverVars
    /\ UNCHANGED notifyVars

\* checkTarget is through with the probe; the next one starts from nothing
ProbeDone ==
    /\ probeInput # NoProbe
    /\ probeInput' = NoProbe
    /\ probeResult' = NoProbe
    /\ savedSSL' = NotSaved
    /\ UNCHANGED globalDialContext
    /\ UNCHANGED monitorVars
    /\ UNCHANGED alertVars
    /\ UNCHANGED serverVars
    /\ UNCHANGED notifyVars

\* one probe at a time: a probe starts when the one before has reported
ProbeNext ==
    \/ /\ probeInput = NoProbe
       /\ \/ \E in \in SSLInputs : SSLCheck(in)
          \/ \E in \in HTTPInputs : HTTPCheck(in)
          \/ \E in \in HTTPSInputs : HTTPSCheck(in)
          \/ \E in \in SNMPInputs : SNMPCheck(in)
          \/ \E in \in PingInputs : PingCheck(in)
    \/ SaveProbeResult
    \/ ProbeDone

ProbeSpec == Init /\ [][ProbeNext]_vars

(***************************************************************************)
(* Properties of the scheduler, the worker pool and the result pipeline.   *)
(***************************************************************************)
\* occurrences of target id in the check queue
Queued(q, id) == Len(SelectSeq(q, LAMBDA t : t.ID = id))

\* rows of monitor_status that belong to target id
RowsOf(rows, id) == {i \in 1..Len(rows) : rows[i].TargetID = id}

\* a worker is between the entry and the return of saveResult for target id
Saving(id) ==
    \E w \in Workers :
        /\ workers[w].target.ID = id
        /\ workers[w].pc \in {"first", "save", "create", "count", "countup",
                              "ufirst", "usave", "sinks"}

\* C1: once RemoveTarget(id) has deleted the registry entry, the timer of id
\* is stopped: while id stays unregistered no step enqueues a further tick
\* for id.
C1_NoTickAfterRemove ==
    [][\A id \in TargetIds :
          (targets[id] = NoTarget /\ targets'[id] = NoTarget)
              => Queued(checkQueue', id) <= Queued(checkQueue, id)]_vars

\* C2: every probe that has finished, whatever error value its checker
\* returned with the result, is handed to saveResult: the worker leaves
\* checkTarget's call of Check only into the pipeline.
C2_FinishedProbeReachesPipeline ==
    [][\A w \in Workers :
          (workers[w].pc = "checked" /\ workers'[w].pc # "checked")
              => workers'[w].pc = "first"]_vars

\* C3: the queue never exceeds its capacity; a tick is dropped (warning
\* logged) only when the queue is at capacity, and the drop leaves the queue,
\* the timers, the workers and the store unchanged; a live timer is never
\* blocked: with free space its tick is enqueued, at capacity it is dropped.
C3_FullQueueDropsTick ==
    /\ [](Len(checkQueue) <= QueueCap)
    /\ [](\A t \in TargetInputs :
            timers[t] > 0 =>
                IF Len(checkQueue) < QueueCap
                THEN ENABLED (Tick(t) /\ checkQueue' = Append(checkQueue, t))
                ELSE queueFullWarnings < MaxWarnings =>
                         ENABLED (Tick(t) /\
                                  queueFullWarnings' = queueFullWarnings + 1))
    /\ [][queueFullWarnings' # queueFullWarnings =>
             /\ Len(checkQueue) = QueueCap
             /\ UNCHANGED <<checkQueue, timers, workers, statusRows, history,
                            fileLog>>]_vars

\* a tick has been dropped at a full queue while a CurrentStatus row exists
C3_Witness ==
    /\ queueFullWarnings > 0
    /\ Len(checkQueue) = QueueCap
    /\ statusRows # <<>>

\* C4: the store holds at most one CurrentStatus row per target id.
C4_OneStatusRowPerTarget ==
    \A id \in TargetIds : Cardinality(RowsOf(statusRows, id)) <= 1

\* C5: once a result R of target T has been applied (its history record is
\* written), CurrentStatus(T).checked_at is at least R.checked_at, and when
\* no pipeline run for T is in progress CurrentStatus(T) shows the status of
\* the most recently applied result (stated for the targets that have a
\* single CurrentStatus row).
C5_StatusNotOlderThanApplied ==
    \A i \in 1..Len(history) :
      Cardinality(RowsOf(statusRows, history[i].TargetID)) = 1 =>
        LET cur == FirstStatus(statusRows, history[i].TargetID)
            mine == RowsOf(history, history[i].TargetID)
            last == CHOOSE j \in mine : \A k \in mine : k <= j
        IN  /\ cur.CheckedAt >= history[i].CheckedAt
            /\ ~Saving(history[i].TargetID)
                   => cur.Status = history[last].Status

\* C6: 0 <= uptime_percentage <= 100 in every row of every reachable state.
C6_UptimeWithinRange ==
    \A i \in 1..Len(statusRows) :
        /\ statusRows[i].UptimePercentage >= 0
        /\ statusRows[i].UptimePercentage <= 100

\* C7: when updateUptimePercentage has saved for target T, the uptime of
\* CurrentStatus(T) is floor(100 * up_count / total_count) over the history
\* records of T in the trailing 30 days, 0 when there is none.
C7_UptimeIsFloorOfRatio ==
    [][\A w \in Workers :
          (workers[w].pc = "usave" /\ workers'[w].pc = "sinks") =>
              LET id == workers[w].target.ID
              IN  FirstStatus(statusRows', id).UptimePercentage =
                      UptimeOf(
                          CountUpHistory(history', id, now' - UptimeWindowDays),
                          CountHistory(history', id, now' - UptimeWindowDays))
      ]_vars

\* C10: every result that saveResult has applied was delivered to the alert
\* Manager: a target with a history record and no pipeline run in progress
\* has an event in its event buffer.
C10_AppliedResultReachesAlertEngine ==
    \A id \in TargetIds :
        (\E i \in 1..Len(history) : history[i].TargetID = id) /\ ~Saving(id)
            => eventBuffer[id] # <<>>

(***************************************************************************)
(* Properties of the alert Manager.                                        *)
(***************************************************************************)
\* "ALERT:" lines of rule id
AlertCount(a, id) == Len(SelectSeq(a, LAMBDA r : r = id))

\* the rule carries a failure-count condition and no other condition
FailureCountOnly(rule) ==
    /\ rule.Conditions.DownConsecutiveTimes > 0
    /\ rule.Conditions.SlowResponseThreshold = 0
    /\ ~rule.Conditions.StatusChanged

\* the rule is enabled, covers the target and is outside its cooldown
Armed(rule, tid) ==
    /\ rule.Enabled
    /\ rule.TargetID \in {0, tid}
    /\ ~(/\ rule.CooldownSeconds > 0
         /\ rule.LastAlertTime # 0
         /\ clock - rule.LastAlertTime < rule.CooldownSeconds)

\* the n newest events of the buffer exist and all have status down
NewestAllDown(events, n) ==
    /\ Len(events) >= n
    /\ \A i \in (Len(events) - n + 1)..Len(events) : events[i].Status = "down"

\* C8: a rule with cooldown_seconds = c > 0 fires at most once per c-second
\* window: a fire puts the time of the fire into the rule (cooling state),
\* nothing but a fire or the replacement of the rule changes that time, and
\* a rule that has fired dispatches again only c or more seconds later, once
\* per event.
C8_AtMostOneFirePerCooldown ==
    [][\A id \in DOMAIN rules \cap DOMAIN rules' :
          /\ AlertCount(alerts', id) > 0 =>
                /\ AlertCount(alerts', id) = 1
                /\ rules'[id].LastAlertTime = clock
                /\ (rules[id].CooldownSeconds > 0
                        /\ rules[id].LastAlertTime # 0)
                     => clock - rules[id].LastAlertTime
                            >= rules[id].CooldownSeconds
          /\ rules'[id].LastAlertTime # rules[id].LastAlertTime =>
                \/ AlertCount(alerts', id) > 0
                \/ rules'[id].LastAlertTime = 0
      ]_vars

\* a rule with a cooldown fired a second ago and is cooling; both targets
\* have two consecutive down events and the event just processed (a second
\* down of target 2, at the time of the state) dispatched nothing
C8_Witness ==
    \E id \in DOMAIN rules :
        /\ rules[id] = [Rule(id, 0, TRUE, FailureOnly, 2)
                           EXCEPT !.LastAlertTime = clock - 1]
        /\ alerts = <<>>
        /\ \A tid \in EventTargets :
               eventBuffer[tid] = <<[Status |-> "down"], [Status |-> "down"]>>

\* C9: a rule with only a failure-count condition of threshold N that is
\* enabled, covers the target and is not cooling down fires on an event
\* exactly when the N newest buffered events of the target, the new one
\* included, are all down: the gate says so for every event, a dispatch of
\* such a rule happens only in that case, and in that case processing a down
\* event dispatches once and cannot leave the rule silent.
C9_FiresOnNConsecutiveDown ==
    /\ [](\A id \in DOMAIN rules : \A e \in EventInputs :
            LET events == BufferAppend(eventBuffer[e.TargetID], e)
                n == rules[id].Conditions.DownConsecutiveTimes
            IN  (FailureCountOnly(rules[id]) /\ Armed(rules[id], e.TargetID))
                  => /\ RuleFires(rules[id], e, events, clock)
                          <=> NewestAllDown(events, n)
                     /\ NewestAllDown(events, n)
                          => /\ ENABLED (/\ ProcessEvent(e)
                                         /\ AlertCount(alerts', id) = 1)
                             /\ ~ENABLED (/\ ProcessEvent(e)
                                          /\ AlertCount(alerts', id) # 1)
                     /\ ~NewestAllDown(events, n)
                          => ~ENABLED (/\ ProcessEvent(e)
                                       /\ AlertCount(alerts', id) # 0))
    /\ [][\A id \in DOMAIN rules :
            (FailureCountOnly(rules[id]) /\ AlertCount(alerts', id) > 0)
              => \E tid \in EventTargets :
                    /\ Armed(rules[id], tid)
                    /\ NewestAllDown(eventBuffer'[tid],
                           rules[id].Conditions.DownConsecutiveTimes)
         ]_vars

\* threshold 2, two consecutive down results of target 1, the second of
\* them just processed with exactly one dispatch of the rule
C9_Witness ==
    \E id \in DOMAIN rules :
        /\ FailureCountOnly(rules[id])
        /\ rules[id].Conditions.DownConsecutiveTimes = 2
        /\ rules[id].LastAlertTime = clock
        /\ eventBuffer[1] = <<[Status |-> "down"], [Status |-> "down"]>>
        /\ eventBuffer[2] = <<>>
        /\ alerts = <<id>>

\* C11: a TriggerCheck call for a registered id (the call the goroutine of
\* addMonitor makes) does what a tick does: with free space the target is
\* appended to checkQueue, at capacity nothing is queued, and no check is
\* started anywhere else; every result that reaches the history comes from a
\* target a pool worker took from checkQueue.
C11_TriggerUsesQueue ==
    [][/\ \A id \in TargetIds :
            (firstChecks'[id] < firstChecks[id] /\ targets[id] # NoTarget)
              => /\ triggered' = triggered
                 /\ IF Len(checkQueue) < QueueCap
                    THEN checkQueue' = Append(checkQueue, targets[id])
                    ELSE checkQueue' = checkQueue
       /\ Len(history') > Len(history)
              => checkQueue # <<>> /\ checkQueue' = Tail(checkQueue)
      ]_vars

\* C12: once main has shut down, the root context is cancelled, no timer
\* goroutine is left to fire and the index-sink buffer has been written out.
C12_ShutdownStopsEngine ==
    stopped => /\ ctxDone
               /\ TotalTimers = 0
               /\ esBuffer = 0

\* C13: no target with a period below 1 s is ever registered, no timer runs
\* with such a period and NewTicker is never reached with one.
C13_NoPeriodBelowOne ==
    /\ ~panicked
    /\ \A id \in TargetIds :
           targets[id] # NoTarget => targets[id].Interval >= 1
    /\ \A t \in AllTargets : timers[t] > 0 => t.Interval >= 1

\* C14: every step that starts the timer of a target also starts exactly one
\* first check of that target (the goroutine that waits the settle delay and
\* then triggers the check).
C14_EveryAddGetsFirstCheck ==
    [][\A t \in AllTargets :
          timers'[t] > timers[t]
            => firstChecks'[t.ID] = firstChecks[t.ID] + 1]_vars

(***************************************************************************)
(* Properties of the probes.                                               *)
(***************************************************************************)
\* the status the expiry rule gives a leaf with u seconds to not_after:
\* d = floor(u / 1 day), d < 0 down, d <= critical critical, d <= warn
\* warning, else up
FloorExpiryStatus(u, in) ==
    LET d == u \div DaySeconds
    IN  IF d < 0 THEN "down"
        ELSE IF d <= in.CriticalDays THEN "critical"
        ELSE IF d <= in.WarnDays THEN "warning"
        ELSE "up"

\* C15: the SSL probe of a server that is sound but for the age of its leaf
\* reports the status of d = floor((not_after - now) / 1 day), now being the
\* time of the classification; a leaf that expired a second ago is down and
\* a leaf with one day left and critical_days = 7 is critical.
C15_ExpiryClassifiedByFloor ==
    (probeInput.kind = "ssl" /\ probeInput.ssl.TlsOk)
      => probeResult.result.Status =
             FloorExpiryStatus(
                 probeInput.ssl.UntilAtDial - probeInput.ssl.Elapsed,
                 probeInput.ssl)

\* C16: an https probe with ssl_check set whose TLS handshake fails returns
\* status down with error kind ssl_error and no certificate_chain, whatever
\* the HTTP part of the probe met.
C16_HandshakeFailureIsSSLError ==
    (/\ probeInput.kind = "https"
     /\ probeInput.https.SSLCheck
     /\ ~HandshakeOk(probeInput.https.ssl))
      => /\ probeResult.result.Status = "down"
         /\ probeResult.result.ErrorType = "ssl_error"
         /\ probeResult.result.Chain = 0

\* C17: with ssl_check set, certificate_chain is non-empty exactly
\* when the handshake succeeded, whatever the other SSL options are.
C17_ChainIffHandshake ==
    (probeInput.kind = "https" /\ probeInput.https.SSLCheck)
      => (probeResult.result.Chain > 0 <=> HandshakeOk(probeInput.https.ssl))

\* C18: a response that reaches the classification is up, with no expected
\* codes, exactly when 200 <= code < 300, and with expected codes exactly
\* when its code is one of them; every other response is down.
C18_StatusClassification ==
    (/\ probeInput.kind = "http"
     /\ probeInput.http.Outcome = "response"
     /\ probeResult.result.Code = probeInput.http.Code)
      => LET code == probeInput.http.Code
             expected == probeInput.http.Expected
             isUp == IF expected = <<>>
                     THEN 200 <= code /\ code < 300
                     ELSE \E i \in 1..Len(expected) : expected[i] = code
         IN  /\ probeResult.result.Status \in {"up", "down"}
             /\ probeResult.result.Status = "up" <=> isUp

C18_Witness ==
    /\ probeInput.kind = "http"
    /\ probeInput.http.Outcome = "response"
    /\ probeInput.http.Expected = <<200, 301>>
    /\ probeInput.http.Code = 301
    /\ probeResult.result.Code = 301
    /\ probeResult.result.Status = "up"

\* "actual operator expected" of the six operators on numbers
NumHolds(actual, operator, expected) ==
    CASE operator = "eq" -> actual = expected
      [] operator = "ne" -> actual # expected
      [] operator = "gt" -> actual > expected
      [] operator = "lt" -> actual < expected
      [] operator = "ge" -> actual >= expected
      [] operator = "le" -> actual <= expected

C20_LossMapping ==
    (/\ probeInput.kind = "ping"
     /\ ~probeInput.ping.Failed
     /\ probeInput.ping.Sent > 0
     /\ probeInput.ping.Received <= probeInput.ping.Sent)
      => LET sent == probeInput.ping.Sent
             lost == sent - probeInput.ping.Received
             loss == CHOOSE n \in 0..100 :
                         /\ n * sent >= lost * 100
                         /\ (n - 1) * sent < lost * 100
         IN  probeResult.result.Status =
                 IF loss = 100 THEN "down"
                 ELSE IF loss >= 50 THEN "degraded"
                 ELSE "up"

(***************************************************************************)
(* Properties of the event buffer and of the fire bookkeeping.             *)
(***************************************************************************)
\* the newest n elements of a sequence, all of it when it is shorter
Newest(seq, n) ==
    IF Len(seq) <= n THEN seq ELSE SubSeq(seq, Len(seq) - n + 1, Len(seq))

\* C21: the buffer of every target never holds more than the capacity, and
\* a ProcessEvent call leaves in the buffer of the event's target the newest
\* events of the old buffer followed by the new event, in arrival order (at
\* capacity exactly the oldest one goes), and leaves every other buffer as
\* it was.
C21_BufferHoldsNewestEvents ==
    /\ [](\A tid \in EventTargets : Len(eventBuffer[tid]) <= EventBufferCap)
    /\ [][\A e \in EventInputs :
            ProcessEvent(e)
              => /\ eventBuffer'[e.TargetID] =
                       Newest(Append(eventBuffer[e.TargetID],
                                     [Status |-> e.Status]),
                              EventBufferCap)
                 /\ \A tid \in EventTargets \ {e.TargetID} :
                        eventBuffer'[tid] = eventBuffer[tid]
         ]_vars

\* a rule of target 1 fired on consecutive downs at the present second and
\* the buffer of target 1 is now full of later up events: the downs were
\* evicted
C21_Witness ==
    \E id \in DOMAIN rules :
        /\ clock > 0
        /\ rules[id] = [Rule(id, 1, TRUE, FailureOnly, 0)
                           EXCEPT !.LastAlertTime = clock]
        /\ eventBuffer[1] = [i \in 1..EventBufferCap |-> [Status |-> "up"]]

\* C22: every probe returns a result, none panics, whatever the
\* configuration of the target: an HTTP probe under every combination of
\* follow_redirects, max_redirects and dns_server, an SNMP probe of an
\* Integer answer.
C22_NoProbePanics ==
    probeResult.kind # "none" => ~probeResult.result.Panics

\* C23: an HTTP probe leaves the transport of the shared client as it was,
\* so the request of a target without dns_server goes through the default
\* resolver whatever was probed before.
C23_SharedClientUnchanged ==
    /\ globalDialContext = "default"
    /\ (/\ probeInput.kind = "http"
        /\ probeInput.http.DNSServer = ""
        /\ probeInput.http.Outcome # "request_error")
         => probeResult.result.Resolver = "default"

(***************************************************************************)
(* Properties of the handlers of the server and of the timers.             *)
(***************************************************************************)
\* a check of target id is waiting in the queue or running in a goroutine
\* of TriggerCheck
InFlight(id) ==
    \/ Queued(checkQueue, id) > 0
    \/ \E t \in AllTargets : t.ID = id /\ triggered[t] > 0

\* id was given to a target that removeMonitor has taken away since
Removed(id) == id <= lastID /\ targets[id] = NoTarget

\* C24: once a target is removed and no check of it is in flight, the store
\* has no status row and no history row of its id.
C24_RemovedTargetLeavesNoRows ==
    \A id \in TargetIds :
        (Removed(id) /\ ~InFlight(id))
          => /\ RowsOf(statusRows, id) = {}
             /\ \A i \in 1..Len(history) : history[i].TargetID # id

\* monitorTarget goroutines running for target id
TimersOf(id) ==
    SumOver(timers, {t \in AllTargets : t.ID = id})

\* C28: no target id has more than one running timer, and a running timer
\* belongs to the target registered under its id, with that target's
\* interval.
C28_OneTimerPerTarget ==
    /\ \A id \in TargetIds : TimersOf(id) <= 1
    /\ \A t \in AllTargets : timers[t] > 0 => targets[t.ID] = t

\* C29: a registered target whose row has enabled = false has no running
\* timer, whichever handler brought it in, so that the timers are those a
\* restart (LoadTargetsFromDB) would start.
C29_DisabledTargetHasNoTimer ==
    \A id \in TargetIds :
        (targets[id] # NoTarget /\ ~enabledRow[id]) => TimersOf(id) = 0

\* C26: once the result of an https probe with ssl_check whose handshake
\* succeeded is saved, the status row has the issuer, the subject, the
\* serial and the days until expiry of the leaf in its SSL fields.
C26_SSLFieldsReachStatusRow ==
    (/\ probeInput.kind = "https"
     /\ probeInput.https.SSLCheck
     /\ HandshakeOk(probeInput.https.ssl)
     /\ savedSSL.Saved)
      => savedSSL.Fields =
             {"SSLDaysUntilExpiry", "SSLIssuer", "SSLSubject", "SSLEserial"}

\* no caller is inside ProcessEvent
AllCallsDone == \A c \in Callers : calls[c].pc = "idle"

\* C25: calls of ProcessEvent that overlap behave like calls one after the
\* other: once they are through, the buffer of a target holds as many events
\* as calls were made for it (up to the capacity), and a call dispatches a
\* rule with a cooldown only if the rule has not fired inside its cooldown
\* window.
C25_OverlappingCallsAreSerialized ==
    /\ [](AllCallsDone
            => \A tid \in EventTargets :
                   Len(eventBuffer[tid]) = Min(processed[tid], EventBufferCap))
    /\ [][\A id \in DOMAIN rules :
            (AlertCount(alerts', id) > 0 /\ rules[id].CooldownSeconds > 0
                /\ rules[id].LastAlertTime # 0)
              => clock - rules[id].LastAlertTime >= rules[id].CooldownSeconds
         ]_vars

\* C30: when ProcessEvent handles an event for which an enabled rule that is
\* not cooling down has its condition true, the rule's last alert time
\* becomes the time of the call, with or without a channel of the rule that
\* exists and is enabled; and a rule inside its cooldown dispatches nothing,
\* whatever the fire that started the cooldown notified.
C30_FireStartsCooldownWithoutChannel ==
    /\ [][\A id \in DOMAIN rules : \A e \in EventInputs :
            (/\ ProcessEvent(e)
             /\ RuleFires(rules[id], e,
                          BufferAppend(eventBuffer[e.TargetID], e), clock))
              => /\ rules'[id].LastAlertTime = clock'
                 /\ rules'[id].LastAlertTime # 0
         ]_vars
    /\ [][\A id \in DOMAIN rules :
            (/\ rules[id].CooldownSeconds > 0
             /\ rules[id].LastAlertTime # 0
             /\ clock - rules[id].LastAlertTime < rules[id].CooldownSeconds)
              => AlertCount(alerts', id) = 0
         ]_vars

\* a rule with a cooldown has just fired while its only channel exists but
\* is disabled: nothing was notified and the rule carries the time of the
\* fire
C30_Witness ==
    \E id \in DOMAIN rules :
        /\ AlertCount(alerts, id) = 1
        /\ rules[id].CooldownSeconds > 0
        /\ rules[id].LastAlertTime = clock
        /\ SendingChannels(rules[id]) = {}
        /\ \E ch \in DOMAIN channels : ~channels[ch].Enabled

\* calls of SendAlert for the target of call i, up to call i
CallsOfTarget(i) ==
    SelectSeq(SubSeq(sendLog, 1, i),
              LAMBDA c : c.TargetID = sendLog[i].TargetID)

\* C27: Service.SendAlert dispatches a notification of an enabled rule only
\* when the rule has not been dispatched within the cooldown_seconds before
\* the call and the rule's own threshold holds: for failure_count, the
\* threshold_value newest results of the target are all down; for
\* response_time, the response time of the result exceeds threshold_value.
C27_SendAlertAppliesRuleGate ==
    \A i \in 1..Len(sendLog) : \A rule \in sendLog[i].Dispatched :
        /\ rule.Enabled
        /\ \A j \in 1..(i - 1) :
               (\E r \in sendLog[j].Dispatched : r.ID = rule.ID)
                 => sendLog[i].Time - sendLog[j].Time >= rule.CooldownSeconds
        /\ rule.ThresholdType = "failure_count"
             => NewestAllDown(CallsOfTarget(i), rule.ThresholdValue)
        /\ rule.ThresholdType = "response_time"
             => /\ sendLog[i].Metadata.HasResponseTime
                /\ sendLog[i].Metadata.ResponseTime > rule.ThresholdValue

====
